---- MODULE Spec2Model ----
(***************************************************************************)
(* Model of pyexperimenthistory/experiment.py: the experiment record store *)
(* (ExperimentManager, Experiment, Image, Parameter) and the rendering     *)
(* algorithms of the Markdown document model (Text.center_text, List,      *)
(* Table).                                                                 *)
(*                                                                         *)
(* A Python str is a sequence of one-character strings, except for file    *)
(* paths and free text that the code only concatenates or stores, which    *)
(* are sequences of longer pieces.  The pandas DataFrame is a set of       *)
(* column names and a sequence of rows; each row carries its index label   *)
(* and a commit number `cid` that is a history value (not stored by the    *)
(* program) used to tell rows of different commits apart.  The Experiment  *)
(* objects of _new_experiments_dict carry two more history values: `born`, *)
(* the number of rows committed before the object was made, and `flushed`, *)
(* whether to_csv has succeeded since.                                     *)
(***************************************************************************)
EXTENDS Integers, Sequences, FiniteSets, TLC

VARIABLES
    pc,               \* position of the single thread of the process
    df,               \* ExperimentManager._df
    options,          \* ExperimentManager._options
    new_experiments,  \* ExperimentManager._new_experiments, as the names
    new_experiments_dict, \* ExperimentManager._new_experiments_dict
    csv,              \* the file experiments.csv
    dirs,             \* directories that exist
    files,            \* image files that exist
    cur,              \* the Image object of the add_image call in progress
    last,             \* the last call made and the exception it raised
    nextCid,          \* number of rows appended so far (history)
    c_in, c_out,      \* Text.center_text: arguments and result
    l_list, l_out,    \* a Markdown.List object and its last render
    t_table, t_out    \* a Markdown.Table object and the outcome of its last call

storeVars == <<pc, df, options, new_experiments, new_experiments_dict, csv, dirs, files, cur, last, nextCid>>
docVars == <<c_in, c_out, l_list, l_out, t_table, t_out>>
vars == <<pc, df, options, new_experiments, new_experiments_dict, csv, dirs, files, cur, last, nextCid,
          c_in, c_out, l_list, l_out, t_table, t_out>>

(***************************************************************************)
(* Bounds                                                                  *)
(***************************************************************************)
MaxCommits == 2
MaxExperiments == 2

(***************************************************************************)
(* Python str helpers                                                      *)
(***************************************************************************)
Upper == <<"A","B","C","D","E","F","G","H","I","J","K","L","M",
           "N","O","P","Q","R","S","T","U","V","W","X","Y","Z">>
Lower == <<"a","b","c","d","e","f","g","h","i","j","k","l","m",
           "n","o","p","q","r","s","t","u","v","w","x","y","z">>

lower_char(c) ==
    IF \E i \in DOMAIN Upper : Upper[i] = c
    THEN Lower[CHOOSE i \in DOMAIN Upper : Upper[i] = c]
    ELSE c

\* str.lower()
lower(s) == [i \in DOMAIN s |-> lower_char(s[i])]

Whitespace == {" ", "\t", "\n"}

RECURSIVE lstrip(_)
lstrip(s) ==
    IF s = <<>> THEN <<>>
    ELSE IF Head(s) \in Whitespace THEN lstrip(Tail(s)) ELSE s

RECURSIVE rstrip(_)
rstrip(s) ==
    IF s = <<>> THEN <<>>
    ELSE IF s[Len(s)] \in Whitespace THEN rstrip(SubSeq(s, 1, Len(s) - 1)) ELSE s

\* str.strip()
strip(s) == rstrip(lstrip(s))

(***************************************************************************)
(* Values                                                                  *)
(***************************************************************************)
\* the float NaN pandas puts in a cell without a value
NaN == <<"NaN">>

\* no exception
NoError == "none"

S_input == <<"i","n","p","u","t">>
S_output == <<"o","u","t","p","u","t">>

\* arguments the calls are made with
NameInputs == { <<>>, <<" ">>, <<"x">>, <<"y">> }
RoleInputs == { <<"I","n","p","u","t">>, <<"s","i","d","e","w","a","y","s">> }

\* the wider set of roles add_image is called with under SpecRoles
AllRoleInputs == RoleInputs \cup
    { S_input, S_output, <<"I","N","P","U","T">>, <<"O","U","T","P","U","T">>,
      <<"O","u","t","p","u","t">>, <<"i","n">>, <<>> }
FilenameInputs == { <<"f.png">> }
TitleInput == <<"t">>
DescriptionInput == <<"d">>
ParamNameInput == <<"p">>
ParamValueInput == <<"v">>

ImageIndex == {"experiment", "input_or_output", "filename", "title", "description"}
ParameterIndex == {"experiment", "input_or_output", "parameter_name", "parameter_value",
                   "type", "title", "description"}

\* pandas.DataFrame()
EmptyDataFrame == [columns |-> {}, rows |-> <<>>]

NoFile == [exists |-> FALSE, columns |-> {}, records |-> <<>>]

ExperimentsDir == <<"experiments">>

\* Experiment._dirname, Experiment._img_folder
dirname(name) == <<"experiments/">> \o name
img_folder(name) == dirname(name) \o <<"/images">>

NoImage == [exp_name |-> <<>>, input_or_output |-> <<>>, filename |-> <<>>,
            title |-> <<>>, description |-> <<>>]

NoCall == [op |-> "init", name |-> <<>>, role |-> <<>>, raised |-> NoError]

(***************************************************************************)
(* Record types                                                            *)
(***************************************************************************)
NoneSeries == [isNone |-> TRUE, name |-> "", index |-> {},
               experiment |-> NaN, input_or_output |-> NaN, filename |-> NaN,
               title |-> NaN, description |-> NaN, parameter_name |-> NaN,
               parameter_value |-> NaN, type |-> NaN]

\* Image.__init__
Image(exp_name, input_or_output, filename, title, description) ==
    [exp_name |-> exp_name, input_or_output |-> input_or_output,
     filename |-> filename, title |-> title, description |-> description]

\* Image.to_series
Image_to_series(img) ==
    [NoneSeries EXCEPT !.isNone = FALSE, !.name = "image", !.index = ImageIndex,
        !.experiment = img.exp_name, !.input_or_output = img.input_or_output,
        !.filename = img.filename, !.title = img.title,
        !.description = img.description]

\* the Series that Parameter.to_series builds in its local variable s
Parameter_series(exp_name, input_or_output, param_name, param_value, title, description) ==
    [NoneSeries EXCEPT !.isNone = FALSE, !.name = "parameter", !.index = ParameterIndex,
        !.experiment = exp_name, !.input_or_output = input_or_output,
        !.parameter_name = param_name, !.parameter_value = param_value,
        !.type = <<"<class 'str'>">>, !.title = title, !.description = description]

\* Parameter.to_series: builds s and falls off the end without a return
Parameter_to_series(exp_name, input_or_output, param_name, param_value, title, description) ==
    NoneSeries

(***************************************************************************)
(* DataFrame operations                                                    *)
(***************************************************************************)
SeriesRow(s, cid) ==
    [label |-> [name |-> s.name, pos |-> -1], cid |-> cid,
     experiment |-> s.experiment, input_or_output |-> s.input_or_output,
     filename |-> s.filename, title |-> s.title, description |-> s.description,
     parameter_name |-> s.parameter_name, parameter_value |-> s.parameter_value,
     type |-> s.type]

\* DataFrame.append(s): concat drops a None operand
append(d, s, cid) ==
    IF s.isNone THEN d
    ELSE [columns |-> d.columns \cup s.index,
          rows |-> Append(d.rows, SeriesRow(s, cid))]

\* a cell as DataFrame.to_csv writes it: a missing value is the empty field
csv_cell(v) == IF v = NaN THEN <<>> ELSE v

\* a field as pandas.read_csv parses it: the empty field is a missing value
parse_cell(t) == IF t = <<>> THEN NaN ELSE t

\* DataFrame.to_csv('experiments.csv', index=False): the index label is not written
to_csv(d) ==
    [exists |-> TRUE, columns |-> d.columns,
     records |-> [i \in DOMAIN d.rows |->
        [cid |-> d.rows[i].cid,
         experiment |-> csv_cell(d.rows[i].experiment),
         input_or_output |-> csv_cell(d.rows[i].input_or_output),
         filename |-> csv_cell(d.rows[i].filename),
         title |-> csv_cell(d.rows[i].title),
         description |-> csv_cell(d.rows[i].description),
         parameter_name |-> csv_cell(d.rows[i].parameter_name),
         parameter_value |-> csv_cell(d.rows[i].parameter_value),
         type |-> csv_cell(d.rows[i].type)]]]

\* pandas.read_csv("experiments.csv"): rows get the labels 0, 1, ...
read_csv(f) ==
    [columns |-> f.columns,
     rows |-> [i \in DOMAIN f.records |->
        [label |-> [name |-> "", pos |-> i - 1],
         cid |-> f.records[i].cid,
         experiment |-> parse_cell(f.records[i].experiment),
         input_or_output |-> parse_cell(f.records[i].input_or_output),
         filename |-> parse_cell(f.records[i].filename),
         title |-> parse_cell(f.records[i].title),
         description |-> parse_cell(f.records[i].description),
         parameter_name |-> parse_cell(f.records[i].parameter_name),
         parameter_value |-> parse_cell(f.records[i].parameter_value),
         type |-> parse_cell(f.records[i].type)]]]

HasExperiment(r, name) == r.experiment = name
LacksExperiment(r, name) == r.experiment # name

\* ExperimentManager.get_experiment: self._df[self._df.experiment == experiment_name];
\* a DataFrame without the column has no attribute `experiment`
get_experiment(d, experiment_name) ==
    LET keep(r) == HasExperiment(r, experiment_name)
    IN  IF "experiment" \notin d.columns
        THEN [raised |-> "AttributeError", rows |-> <<>>]
        ELSE [raised |-> NoError, rows |-> SelectSeq(d.rows, keep)]

\* purge that filters nothing out
purge_noop(d, name) == d

\* purge that keeps no row at all
purge_all(d, name) == [columns |-> d.columns, rows |-> <<>>]

\* self._df[self._df.experiment != name]
purge(d, name) ==
    LET keep(r) == LacksExperiment(r, name)
    IN  [columns |-> d.columns, rows |-> SelectSeq(d.rows, keep)]

\* name in self._df.experiment.unique()
exists_experiment(d, name) == \E i \in DOMAIN d.rows : d.rows[i].experiment = name

\* the refusal is never taken
already_exists_never(d, opts, name) == FALSE

\* new_experiment: the three nested tests that end in the "already exists" raise
already_exists(d, opts, name) ==
    /\ "experiment" \in d.columns
    /\ exists_experiment(d, name)
    /\ opts.overwrite_if_experiment_exists = FALSE

\* imsave that writes nothing
imsave_skip(fs, filename) == fs

\* Image.commit: mpimg.imsave(self.filename, self.img)
imsave(fs, filename) == fs \cup {filename}

(***************************************************************************)
(* ExperimentManager                                                       *)
(***************************************************************************)
StoreInit ==
    /\ pc = "idle"
    /\ df = EmptyDataFrame
    /\ options \in [overwrite_if_experiment_exists : BOOLEAN]
    /\ new_experiments = <<>>
    /\ new_experiments_dict = <<>>
    /\ csv = NoFile
    /\ dirs = {ExperimentsDir}
    /\ files = {}
    /\ cur = NoImage
    /\ last = NoCall
    /\ nextCid = 0

NoResult == [called |-> FALSE, raised |-> NoError, value |-> <<>>]
NoRender == [op |-> "init", raised |-> NoError, widths |-> <<>>, markdown |-> <<>>]

\* Markdown.List.__init__
NewList == [items |-> <<>>, ordered_idx |-> 1, ordered_sub_idx |-> 1]

TextIdle ==
    /\ c_in = [txt |-> <<>>, length |-> 0]
    /\ c_out = NoResult

ListIdle ==
    /\ l_list = NewList
    /\ l_out = [called |-> FALSE, markdown |-> <<>>]

TableIdle ==
    /\ t_table = [cols_desc |-> <<>>, num_cols |-> 0, rows |-> <<>>]
    /\ t_out = NoRender

Init == StoreInit /\ TextIdle /\ ListIdle /\ TableIdle

\* ExperimentManager.__init__, in a process started after the previous one ended
ExperimentManager_init(opts) ==
    /\ pc = "down"
    /\ IF csv.exists /\ ExperimentsDir \in dirs
       THEN IF csv.columns = {}
            THEN \* read_csv raises EmptyDataError: no manager is constructed
                 /\ last' = [NoCall EXCEPT !.op = "__init__", !.raised = "EmptyDataError"]
                 /\ UNCHANGED <<pc, df, options, dirs>>
            ELSE /\ df' = read_csv(csv)
                 /\ options' = opts
                 /\ pc' = "idle"
                 /\ last' = [NoCall EXCEPT !.op = "__init__"]
                 /\ UNCHANGED dirs
       ELSE /\ df' = EmptyDataFrame
            /\ dirs' = dirs \cup {ExperimentsDir}
            /\ options' = opts
            /\ pc' = "idle"
            /\ last' = [NoCall EXCEPT !.op = "__init__"]
    /\ new_experiments' = <<>>
    /\ new_experiments_dict' = <<>>
    /\ UNCHANGED <<csv, files, cur, nextCid>>

\* the process ends (normally or by a crash) and its memory is lost
ProcessExit ==
    /\ pc # "down"
    /\ pc' = "down"
    /\ df' = EmptyDataFrame
    /\ new_experiments' = <<>>
    /\ new_experiments_dict' = <<>>
    /\ cur' = NoImage
    /\ last' = [NoCall EXCEPT !.op = "exit"]
    /\ UNCHANGED <<options, csv, dirs, files, nextCid>>

\* ExperimentManager.new_experiment; Experiment.__init__ creates the directories
new_experiment(isNone, name) ==
    /\ pc = "idle"
    /\ Len(new_experiments) < MaxExperiments
    /\ IF isNone \/ strip(name) = <<>>
       THEN /\ last' = [NoCall EXCEPT !.op = "new_experiment",
                                      !.raised = "InvalidArgument"]
            /\ UNCHANGED <<df, new_experiments, new_experiments_dict, dirs>>
       ELSE IF already_exists(df, options, name)
       THEN /\ last' = [NoCall EXCEPT !.op = "new_experiment", !.name = name,
                                      !.raised = "AlreadyExists"]
            /\ UNCHANGED <<df, new_experiments, new_experiments_dict, dirs>>
       ELSE /\ df' = IF "experiment" \in df.columns /\ exists_experiment(df, name)
                     THEN purge(df, name) ELSE df
            /\ dirs' = dirs \cup {dirname(name), img_folder(name)}
            /\ new_experiments' = Append(new_experiments, name)
            /\ new_experiments_dict' =
                    [n \in DOMAIN new_experiments_dict \cup {name} |->
                        IF n = name THEN [born |-> nextCid, flushed |-> FALSE]
                        ELSE new_experiments_dict[n]]
            /\ last' = [NoCall EXCEPT !.op = "new_experiment", !.name = name]
    /\ UNCHANGED <<pc, options, csv, files, cur, nextCid>>

\* ExperimentManager.commit_experiment: append, then rewrite the whole file;
\* ioOk = FALSE is to_csv failing with an I/O error, the file left as it was
commit_experiment(s, ioOk) ==
    /\ df' = append(df, s, nextCid)
    /\ nextCid' = IF s.isNone THEN nextCid ELSE nextCid + 1
    /\ csv' = IF ioOk THEN to_csv(df') ELSE csv
    /\ new_experiments_dict' =
            IF ioOk
            THEN [n \in DOMAIN new_experiments_dict |->
                     [new_experiments_dict[n] EXCEPT !.flushed = TRUE]]
            ELSE new_experiments_dict
    /\ UNCHANGED new_experiments

(***************************************************************************)
(* Experiment                                                              *)
(***************************************************************************)
\* the role test without the lower() calls
valid_role_exact(input_or_output) ==
    ~(input_or_output # S_input /\ input_or_output # S_output)

\* the role test of Experiment.add_image
valid_role(input_or_output) ==
    ~(lower(input_or_output) # S_input /\ lower(input_or_output) # S_output)

\* Experiment.add_image up to and including image_object.commit() (imsave)
add_image(h, input_or_output, filename) ==
    /\ pc = "idle"
    /\ h \in DOMAIN new_experiments
    /\ nextCid < MaxCommits
    /\ LET name == new_experiments[h]
           image_object == Image(name, input_or_output,
                                 img_folder(name) \o <<"/">> \o filename,
                                 TitleInput, <<>>)
       IN  IF ~valid_role(input_or_output)
           THEN /\ last' = [op |-> "add_image", name |-> name,
                            role |-> input_or_output, raised |-> "InvalidArgument"]
                /\ UNCHANGED <<pc, files, cur>>
           ELSE /\ files' = imsave(files, image_object.filename)
                /\ cur' = image_object
                /\ pc' = "add_image_saved"
                /\ last' = [op |-> "add_image", name |-> name,
                            role |-> input_or_output, raised |-> NoError]
    /\ UNCHANGED <<df, options, new_experiments, new_experiments_dict, csv, dirs, nextCid>>

\* Experiment.add_image from image_object.to_series() to the end
add_image_commit(ioOk) ==
    /\ pc = "add_image_saved"
    /\ commit_experiment(Image_to_series(cur), ioOk)
    /\ pc' = "idle"
    /\ cur' = NoImage
    /\ last' = [NoCall EXCEPT !.op = "add_image_commit",
                              !.raised = IF ioOk THEN NoError ELSE "IOFailure"]
    /\ UNCHANGED <<options, dirs, files>>

\* Experiment.add_input_parameter
add_input_parameter(h, ioOk) ==
    /\ pc = "idle"
    /\ h \in DOMAIN new_experiments
    /\ LET name == new_experiments[h]
           s == Parameter_to_series(name, S_input, ParamNameInput, ParamValueInput,
                                    TitleInput, DescriptionInput)
       IN  /\ commit_experiment(s, ioOk)
           /\ last' = [op |-> "add_input_parameter", name |-> name, role |-> S_input,
                       raised |-> IF ioOk THEN NoError ELSE "IOFailure"]
    /\ UNCHANGED <<pc, options, dirs, files, cur>>

Next ==
    \/ \E opts \in [overwrite_if_experiment_exists : BOOLEAN] :
            ExperimentManager_init(opts) /\ UNCHANGED docVars
    \/ ProcessExit /\ UNCHANGED docVars
    \/ \E isNone \in BOOLEAN, name \in NameInputs :
            new_experiment(isNone, name) /\ UNCHANGED docVars
    \/ \E h \in 1..MaxExperiments, r \in RoleInputs, f \in FilenameInputs :
            add_image(h, r, f) /\ UNCHANGED docVars
    \/ \E ioOk \in BOOLEAN : add_image_commit(ioOk) /\ UNCHANGED docVars
    \/ \E h \in 1..MaxExperiments, ioOk \in BOOLEAN :
            add_input_parameter(h, ioOk) /\ UNCHANGED docVars

Spec == Init /\ [][Next]_vars

\* the store with one experiment name and add_image called with every role
\* of AllRoleInputs
NextRoles ==
    \/ new_experiment(FALSE, <<"x">>) /\ UNCHANGED docVars
    \/ \E h \in 1..MaxExperiments, r \in AllRoleInputs, f \in FilenameInputs :
            add_image(h, r, f) /\ UNCHANGED docVars
    \/ \E ioOk \in BOOLEAN : add_image_commit(ioOk) /\ UNCHANGED docVars

SpecRoles == Init /\ [][NextRoles]_vars

C2_ReopenWithoutOverwriteFails ==
    [][ ( /\ last'.op = "new_experiment"
          /\ ~options.overwrite_if_experiment_exists
          /\ \E i \in DOMAIN df.rows : df.rows[i].experiment = last'.name )
        => ( /\ last'.raised = "AlreadyExists"
             /\ new_experiments' = new_experiments
             /\ new_experiments_dict' = new_experiments_dict
             /\ df' = df
             /\ csv' = csv ) ]_vars

C2_Witness ==
    /\ last.op = "new_experiment"
    /\ last.raised = "AlreadyExists"
    /\ ~options.overwrite_if_experiment_exists
    /\ \E i \in DOMAIN df.rows : df.rows[i].experiment = last.name

\* C3: after every successful commit, a store constructed from the file
\* holds exactly the rows of the in-memory log, in the same order.
C3_RoundTrip ==
    (pc = "idle" /\ last.op = "add_image_commit" /\ last.raised = NoError)
        => (csv.exists /\ read_csv(csv) = df)

\* the image rows of the in-memory log and of the file
ImageFilesOfLog ==
    {df.rows[i].filename : i \in {j \in DOMAIN df.rows : df.rows[j].filename # NaN}}
ImageFilesOfCsv ==
    {csv.records[i].filename :
        i \in {j \in DOMAIN csv.records : csv.records[j].filename # <<>>}}

\* C4: in every state, also part-way through add_image and after the
\* process has died, every image row of the log (in memory or on disk)
\* names a file that has been written.
C4_ImageRowsNameWrittenFiles ==
    /\ ImageFilesOfLog \subseteq files
    /\ ImageFilesOfCsv \subseteq files

\* the process died between imsave and the commit: a committed image row
\* whose file exists, and an orphan file no row names
C4_Witness ==
    /\ pc = "down"
    /\ ImageFilesOfCsv # {}
    /\ \E f \in files : f \notin ImageFilesOfCsv

\* C5: add_image with a role that is neither input nor output in any letter
\* case raises InvalidArgument, commits no row and writes no file; a role
\* that is input or output in some letter case is accepted.
C5_RoleValidation ==
    [][ last'.op = "add_image" =>
          IF lower(last'.role) \in {S_input, S_output}
          THEN /\ last'.raised = NoError
               /\ pc' = "add_image_saved"
               /\ cur'.filename \in files'
          ELSE /\ last'.raised = "InvalidArgument"
               /\ pc' = "idle"
               /\ df' = df /\ csv' = csv /\ files' = files ]_vars

C5_Witness ==
    /\ last.op = "add_image"
    /\ last.raised = "InvalidArgument"
    /\ last.role = <<"s","i","d","e","w","a","y","s">>
    /\ new_experiments # <<>>

\* C6: a successful add_input_parameter appends exactly one row, carrying
\* the handle's experiment name, the role input and the parameter name and
\* value.
C6_ParameterRowAppended ==
    [][ (last'.op = "add_input_parameter" /\ last'.raised = NoError) =>
          /\ Len(df'.rows) = Len(df.rows) + 1
          /\ SubSeq(df'.rows, 1, Len(df.rows)) = df.rows
          /\ LET r == df'.rows[Len(df'.rows)]
             IN  /\ r.experiment = last'.name
                 /\ r.input_or_output = S_input
                 /\ r.parameter_name = ParamNameInput
                 /\ r.parameter_value = ParamValueInput
          /\ get_experiment(df', last'.name).raised = NoError
          /\ Len(get_experiment(df', last'.name).rows)
                = Len(get_experiment(df, last'.name).rows) + 1 ]_vars

MaxLen == 3
MaxWidth == 6

TextChars == {"a", "b"}

\* the str values of length at most n over the characters cs
Strings(cs, n) == UNION {[1..k -> cs] : k \in 0..n}

\* " " * n
spaces(n) == [i \in 1..n |-> " "]

\* center_text that puts the odd leftover space on the left
center_text_ceil(txt, length) ==
    IF Len(txt) > length
    THEN [called |-> TRUE, raised |-> "InvalidArgument", value |-> <<>>]
    ELSE LET total_spaces == length - Len(txt)
             right_spaces == total_spaces \div 2
             left_spaces == total_spaces - right_spaces
         IN  [called |-> TRUE, raised |-> NoError,
              value |-> spaces(left_spaces) \o txt \o spaces(right_spaces)]

\* Markdown.Text.center_text
center_text(txt, length) ==
    IF Len(txt) > length
    THEN [called |-> TRUE, raised |-> "InvalidArgument", value |-> <<>>]
    ELSE LET total_spaces == length - Len(txt)
             left_spaces == total_spaces \div 2
             right_spaces == total_spaces - left_spaces
             new_txt == spaces(left_spaces) \o txt \o spaces(right_spaces)
         IN  [called |-> TRUE, raised |-> NoError, value |-> new_txt]

TextInit ==
    /\ c_in \in [txt : Strings(TextChars, MaxLen), length : 0..MaxWidth]
    /\ c_out = NoResult

\* a call of center_text with the arguments c_in
center_text_call ==
    /\ ~c_out.called
    /\ c_out' = center_text(c_in.txt, c_in.length)
    /\ UNCHANGED <<c_in, l_list, l_out, t_table, t_out>>
    /\ UNCHANGED storeVars

TextNext == center_text_call

InitText == StoreInit /\ TextInit /\ ListIdle /\ TableIdle

SpecText == InitText /\ [][TextNext]_vars

\* C9: center_text(text, width) fails with InvalidArgument when text is
\* longer than width; otherwise the result has length width and is
\* floor((width - len(text)) / 2) spaces, the text, then the remaining
\* spaces, the right padding exceeding the left by 0 or 1.
C9_CenterText ==
    c_out.called =>
        LET n == Len(c_in.txt)
            w == c_in.length
            v == c_out.value
            left == (w - n) \div 2
            right == Len(v) - n - left
        IN  IF n > w
            THEN c_out.raised = "InvalidArgument"
            ELSE /\ c_out.raised = NoError
                 /\ Len(v) = w
                 /\ \A i \in 1..left : v[i] = " "
                 /\ \A i \in 1..n : v[left + i] = c_in.txt[i]
                 /\ \A i \in (left + n + 1)..w : v[i] = " "
                 /\ right - left \in {0, 1}
                 /\ (c_in.txt = <<"a","b">> /\ w = 5) => v = <<" ","a","b"," "," ">>
                 /\ (c_in.txt = <<"a","b">> /\ w = 6) => v = <<" "," ","a","b"," "," ">>

\* center_text("ab", 5) has returned " ab  " (left pad 1, right pad 2)
C9_Witness ==
    /\ c_out.called
    /\ c_in = [txt |-> <<"a","b">>, length |-> 5]
    /\ c_out.value = <<" ","a","b"," "," ">>

(***************************************************************************)
(* Markdown.List                                                           *)
(***************************************************************************)
MaxItems == 3

\* Markdown.List.ListType
ListType == {"ORDERED_MAIN_ITEM", "UNORDERED_MAIN_ITEM",
             "UNORDERED_SUB_ITEM", "ORDERED_SUB_ITEM"}

\* the items added; they are str values, which str(item) returns unchanged
ItemInputs == {<<"a">>, <<"b">>}

Digits == <<"0","1","2","3","4","5","6","7","8","9">>

\* str(n) of an int n >= 0
RECURSIVE str_int(_)
str_int(n) ==
    IF n < 10 THEN <<Digits[n + 1]>>
    ELSE str_int(n \div 10) \o <<Digits[(n % 10) + 1]>>

\* sep.join(lines)
RECURSIVE join(_, _)
join(lines, sep) ==
    IF lines = <<>> THEN <<>>
    ELSE IF Len(lines) = 1 THEN lines[1]
    ELSE lines[1] \o sep \o join(Tail(lines), sep)

\* the appends of add_ordered_item, add_item, add_unordered_sub_item and
\* add_ordered_sub_item
list_append(l, type, item) == [l EXCEPT !.items = Append(@, <<type, item>>)]

\* one pass of the loop of Markdown.List.render
render_item(l, item) ==
    IF item[1] = "ORDERED_MAIN_ITEM"
    THEN str_int(l.ordered_idx) \o <<".">> \o item[2]
    ELSE IF item[1] = "UNORDERED_MAIN_ITEM"
    THEN <<"*", " ">> \o item[2]
    ELSE IF item[1] = "ORDERED_SUB_ITEM"
    THEN spaces(4) \o str_int(l.ordered_sub_idx) \o <<" ">> \o item[2]
    ELSE spaces(4) \o <<"*">> \o item[2]

\* Markdown.List.render
List_render(l) ==
    join([i \in DOMAIN l.items |-> render_item(l, l.items[i])], <<"\n">>)

add_ordered_item(item) ==
    /\ Len(l_list.items) < MaxItems
    /\ l_list' = list_append(l_list, "ORDERED_MAIN_ITEM", item)
    /\ UNCHANGED l_out

add_item(item) ==
    /\ Len(l_list.items) < MaxItems
    /\ l_list' = list_append(l_list, "UNORDERED_MAIN_ITEM", item)
    /\ UNCHANGED l_out

add_unordered_sub_item(item) ==
    /\ Len(l_list.items) < MaxItems
    /\ l_list' = list_append(l_list, "UNORDERED_SUB_ITEM", item)
    /\ UNCHANGED l_out

add_ordered_sub_item(item) ==
    /\ Len(l_list.items) < MaxItems
    /\ l_list' = list_append(l_list, "ORDERED_SUB_ITEM", item)
    /\ UNCHANGED l_out

List_render_call ==
    /\ l_out' = [called |-> TRUE, markdown |-> List_render(l_list)]
    /\ UNCHANGED l_list

ListFrame == UNCHANGED <<c_in, c_out, t_table, t_out>> /\ UNCHANGED storeVars

ListNext ==
    \/ \E item \in ItemInputs : add_ordered_item(item) /\ ListFrame
    \/ \E item \in ItemInputs : add_item(item) /\ ListFrame
    \/ \E item \in ItemInputs : add_unordered_sub_item(item) /\ ListFrame
    \/ \E item \in ItemInputs : add_ordered_sub_item(item) /\ ListFrame
    \/ List_render_call /\ ListFrame

InitList == StoreInit /\ TextIdle /\ ListIdle /\ TableIdle

SpecList == InitList /\ [][ListNext]_vars

\* the lines of a rendered text
RECURSIVE split_lines(_)
split_lines(txt) ==
    IF \A i \in DOMAIN txt : txt[i] # "\n" THEN <<txt>>
    ELSE LET k == CHOOSE i \in DOMAIN txt :
                    txt[i] = "\n" /\ \A j \in 1..(i - 1) : txt[j] # "\n"
         IN  <<SubSeq(txt, 1, k - 1)>> \o split_lines(SubSeq(txt, k + 1, Len(txt)))

\* the number of items of the given type among the first i items
CountOfType(items, type, i) == Cardinality({j \in 1..i : items[j][1] = type})

\* C8: render numbers the k-th ordered main item with k and the j-th
\* ordered sub-item with j, each counter starting at 1 and advancing once
\* per item of its own kind only.
C8_ListCounters ==
    [][ (l_out'.called /\ l_list' = l_list) =>
          LET items == l_list.items
              lines == split_lines(l_out'.markdown)
          IN  \A i \in DOMAIN items :
                /\ items[i][1] = "ORDERED_MAIN_ITEM" =>
                     lines[i] = str_int(CountOfType(items, "ORDERED_MAIN_ITEM", i))
                                  \o <<".">> \o items[i][2]
                /\ items[i][1] = "ORDERED_SUB_ITEM" =>
                     lines[i] = spaces(4)
                                  \o str_int(CountOfType(items, "ORDERED_SUB_ITEM", i))
                                  \o <<" ">> \o items[i][2] ]_vars

(***************************************************************************)
(* Markdown.Table                                                          *)
(***************************************************************************)
MaxCols == 2
MaxRows == 2

HeaderInputs == {<<"A">>, <<"B","B">>}
CellInputs == {<<"1">>, <<"2","2">>}

\* the tuples of length lo..hi over the values vs
Tuples(vs, lo, hi) == UNION {[1..k -> vs] : k \in lo..hi}

\* max(xs) of a non-empty set of numbers
Max(xs) == CHOOSE x \in xs : \A y \in xs : y <= x

\* Markdown.Table.__init__ with at least one column description
Table(cols_desc) == [cols_desc |-> cols_desc, num_cols |-> Len(cols_desc), rows |-> <<>>]

\* table[:, 0] of np.array(self._rows) exists: the rows form a rectangular
\* array with two dimensions and at least one column
has_column_0(rows) ==
    /\ rows # <<>>
    /\ \A i \in DOMAIN rows : Len(rows[i]) = Len(rows[1])
    /\ Len(rows[1]) >= 1

\* max_length_per_column: len(max(table[:, 0], key=len)) for every column
max_length_per_column(t) ==
    [i \in 1..t.num_cols |-> Max({Len(t.rows[r][1]) : r \in DOMAIN t.rows})]

\* " " + center_text(txt, width) + " |" for each cell, after the opening "| "
render_cells(cells, widths) ==
    <<"|", " ">> \o
    join([i \in DOMAIN cells |->
            <<" ">> \o center_text(cells[i], widths[i]).value \o <<" ", "|">>], <<>>)

\* some center_text call of the line raises
cells_raise(cells, widths) ==
    \E i \in DOMAIN cells : center_text(cells[i], widths[i]).raised # NoError

\* the separator line: every character of the header but '|' becomes '-'
underscore(header) == [i \in DOMAIN header |-> IF header[i] # "|" THEN "-" ELSE "|"]

\* Markdown.Table.render
Table_render(t) ==
    IF ~has_column_0(t.rows)
    THEN [op |-> "render", raised |-> "IndexError", widths |-> <<>>, markdown |-> <<>>]
    ELSE LET widths == max_length_per_column(t)
             header == render_cells(t.cols_desc, widths)
             lines == <<header, underscore(header)>> \o
                      [r \in DOMAIN t.rows |-> render_cells(t.rows[r], widths)]
         IN  IF \/ cells_raise(t.cols_desc, widths)
                \/ \E r \in DOMAIN t.rows : cells_raise(t.rows[r], widths)
             THEN [op |-> "render", raised |-> "InvalidArgument", widths |-> widths,
                   markdown |-> <<>>]
             ELSE [op |-> "render", raised |-> NoError, widths |-> widths,
                   markdown |-> join(lines, <<"\n">>)]

TableInit ==
    /\ t_table \in {Table(cols_desc) : cols_desc \in Tuples(HeaderInputs, 1, MaxCols)}
    /\ t_out = NoRender

\* Markdown.Table.add_row
add_row(values) ==
    /\ Len(t_table.rows) < MaxRows
    /\ IF Len(values) > t_table.num_cols
       THEN /\ t_out' = [NoRender EXCEPT !.op = "add_row", !.raised = "InvalidArgument"]
            /\ UNCHANGED t_table
       ELSE /\ t_table' = [t_table EXCEPT !.rows = Append(@, values)]
            /\ t_out' = [NoRender EXCEPT !.op = "add_row"]

Table_render_call ==
    /\ t_out' = Table_render(t_table)
    /\ UNCHANGED t_table

TableFrame == UNCHANGED <<c_in, c_out, l_list, l_out>> /\ UNCHANGED storeVars

TableNext ==
    \/ \E values \in Tuples(CellInputs, 0, MaxCols + 1) : add_row(values) /\ TableFrame
    \/ Table_render_call /\ TableFrame

InitTable == StoreInit /\ TextIdle /\ ListIdle /\ TableInit

SpecTable == InitTable /\ [][TableNext]_vars

\* the string lengths of column i: its header and its cell in every row
\* that has one
ColumnLengths(t, i) ==
    {Len(t.cols_desc[i])} \cup
    {Len(t.rows[r][i]) : r \in {q \in DOMAIN t.rows : Len(t.rows[q]) >= i}}

\* C7: rendering a table uses for column i the width that is the maximum
\* string length among that column's own header and cells, and never fails
\* because a header or cell is longer than its column's width.
C7_ColumnWidths ==
    [][ (t_out'.op = "render" /\ t_table' = t_table) =>
          /\ t_out'.raised # "InvalidArgument"
          /\ t_out'.widths =
                [i \in 1..t_table.num_cols |-> Max(ColumnLengths(t_table, i))] ]_vars
====
